---- MODULE Spec2Model ----
(***************************************************************************)
(* Model of the URL shortener backend (src/unnamed/part_000, lines 1-280): *)
(* the two in-memory Maps urlDatabase and clickAnalytics and the five      *)
(* Express handlers that read and write them.                              *)
(*                                                                         *)
(* Node.js runs each handler to completion on one thread: none of the      *)
(* handlers awaits, and the logger calls they make are async functions     *)
(* whose promise is dropped.  Hence one action per handler.  The wall      *)
(* clock is the only thing that moves while a handler runs: every          *)
(* `new Date()` / `Date.now()` is a separate read, and the clock may       *)
(* advance by one millisecond before any one of them (parameter tickAt).   *)
(*                                                                         *)
(* Strings that the code inspects character by character (short codes)     *)
(* are sequences of one-character strings; other strings are TLA+ strings. *)
(* Times are integers, milliseconds since the start of the run.            *)
(***************************************************************************)
EXTENDS Integers, Sequences, FiniteSets, TLC

VARIABLES
    urlDatabase,     \* Map shortCode -> urlData, as the sequence of its values in insertion order
    clickAnalytics,  \* Map shortCode -> {totalClicks, clicks}, as a sequence of [key, totalClicks, clicks]
    clock,           \* the wall clock, in ms
    uuidCount,       \* number of uuidv4() values handed out
    last,            \* what the last step did: the request handled (route, path parameter) and the response sent
    inFlight         \* log entries posted to the log server whose axios.post has not settled yet

vars == <<urlDatabase, clickAnalytics, clock, uuidCount, last, inFlight>>

----------------------------------------------------------------------------
(* Program constants *)

MaxConcurrentUrls == 5
MinShortcodeLength == 3
MaxShortcodeLength == 20
GeneratedLength == 6
DefaultValidity == 30
SecondsPerMinute == 60
MsPerSecond == 1000

MsPerMinute == SecondsPerMinute * MsPerSecond

(* Bounds of the model *)

MaxUrls == 2        \* records the general specification lets the Registry hold
MaxClicks == 1      \* clicks the general specification lets one code collect
MaxMinutes == 1     \* whole minutes the clock may advance
MaxMs == 1          \* milliseconds the clock may advance beside the whole minutes
MaxDraws == 2       \* random codes drawn by one allocation before the call stack is exhausted
QuotaUrls == 6      \* records the quota specification lets the Registry hold
MaxInFlight == 2    \* log deliveries the sink specification follows until they settle

----------------------------------------------------------------------------
(* JavaScript values of the request body *)

Undefined == [type |-> "undefined", val |-> <<>>]
Str(s) == [type |-> "string", val |-> s]
NoNumber == [type |-> "undefined", val |-> 0]
Num(n) == [type |-> "number", val |-> n]

TruthyString_AnyString(v) == v.type = "string"

\* `if (customCode)`: undefined, null and "" are falsy
TruthyString(v) == v.type = "string" /\ Len(v.val) > 0

\* `validityPeriod || 30`: undefined and 0 are falsy
TruthyNumber(v) == v.type = "number" /\ v.val # 0

Range(s) == {s[i] : i \in 1..Len(s)}

----------------------------------------------------------------------------
(* generateShortCode *)

chars ==
    << "a","b","c","d","e","f","g","h","i","j","k","l","m",
       "n","o","p","q","r","s","t","u","v","w","x","y","z",
       "A","B","C","D","E","F","G","H","I","J","K","L","M",
       "N","O","P","Q","R","S","T","U","V","W","X","Y","Z",
       "0","1","2","3","4","5","6","7","8","9" >>

\* the character class [a-zA-Z0-9_-]
ShortcodeChars == Range(chars) \cup {"_", "-"}

\* /^[a-zA-Z0-9_-]+$/.test(s)
ShortcodeRegexTest(s) ==
    /\ Len(s) >= 1
    /\ \A i \in 1..Len(s) : s[i] \in ShortcodeChars

Has_Stale(db, key) == FALSE

\* urlDatabase.has(key)
Has(db, key) == \E i \in 1..Len(db) : db[i].shortCode = key

IndexOf_FirstOnMiss(db, key) ==
    IF Has(db, key) THEN CHOOSE i \in 1..Len(db) : db[i].shortCode = key
    ELSE IF Len(db) > 0 THEN 1 ELSE 0

\* urlDatabase.get(key): the index of the entry, 0 (undefined) when there is none
IndexOf(db, key) ==
    IF Has(db, key) THEN CHOOSE i \in 1..Len(db) : db[i].shortCode = key ELSE 0

Return(code) == [ok |-> TRUE, code |-> code, error |-> ""]
Throw(message) == [ok |-> FALSE, code |-> <<>>, error |-> message]

\* the loop of lines 45-48: draw[i] is Math.floor(Math.random() * chars.length)
RandomCode(draw) == [i \in 1..GeneratedLength |-> chars[draw[i] + 1]]

FormatMessage ==
    "Custom shortcode must contain only alphanumeric characters, hyphens, and underscores"
LengthMessage == "Custom shortcode must be between 3 and 20 characters"
CollisionMessage == "Custom shortcode already exists"
StackMessage == "Maximum call stack size exceeded"

ValidateCustom_LengthFirst(customCode, db) ==
    IF Len(customCode) < MinShortcodeLength \/ Len(customCode) > MaxShortcodeLength
    THEN Throw(LengthMessage)
    ELSE IF ~ShortcodeRegexTest(customCode)
    THEN Throw(FormatMessage)
    ELSE IF Has(db, customCode)
    THEN Throw(CollisionMessage)
    ELSE Return(customCode)

ValidateCustom_NoCollisionCheck(customCode, db) ==
    IF ~ShortcodeRegexTest(customCode)
    THEN Throw(FormatMessage)
    ELSE IF Len(customCode) < MinShortcodeLength \/ Len(customCode) > MaxShortcodeLength
    THEN Throw(LengthMessage)
    ELSE Return(customCode)

\* lines 30-40: the checks on a custom code, in the order of the code
ValidateCustom(customCode, db) ==
    IF ~ShortcodeRegexTest(customCode)
    THEN Throw(FormatMessage)
    ELSE IF Len(customCode) < MinShortcodeLength \/ Len(customCode) > MaxShortcodeLength
    THEN Throw(LengthMessage)
    ELSE IF Has(db, customCode)
    THEN Throw(CollisionMessage)
    ELSE Return(customCode)

GenerateRandom_NoRetry(db, draws) ==
    IF draws = <<>> THEN Throw(StackMessage) ELSE Return(RandomCode(Head(draws)))

\* lines 43-55.  draws: the values Math.random yields to this call and to
\* the calls it recurses into, one tuple of indices per call.  The recursion
\* of line 52 (generateShortCode() with no custom code) has no bound of its
\* own: when it outruns the call stack the engine throws a RangeError, which
\* the caller's catch (line 110) reports like a validation failure.  The
\* model's call stack holds Len(draws) calls.
RECURSIVE GenerateRandom(_, _)
GenerateRandom(db, draws) ==
    IF draws = <<>>
    THEN Throw(StackMessage)
    ELSE LET result == RandomCode(Head(draws))
         IN  IF Has(db, result)
             THEN GenerateRandom(db, Tail(draws))
             ELSE Return(result)

\* lines 28-56
generateShortCode(customCode, db, draws) ==
    IF TruthyString(customCode)
    THEN ValidateCustom(customCode.val, db)
    ELSE GenerateRandom(db, draws)

----------------------------------------------------------------------------
(* isValidUrl *)

\* new URL(string).protocol for the strings the model sends; "TypeError"
\* when the WHATWG parser rejects the string
URLProtocol(string) ==
    CASE string = "https://example.com" -> "https:"
      [] string = "http://example.org" -> "http:"
      [] string = "ftp://example.com" -> "ftp:"
      [] OTHER -> "TypeError"

isValidUrl(string) ==
    LET protocol == URLProtocol(string)
    IN  protocol # "TypeError" /\ (protocol = "http:" \/ protocol = "https:")

----------------------------------------------------------------------------
(* The clock *)

\* The k-th clock read of a handler that started at clk: the clock advances
\* by one millisecond just before read number tickAt (0: it does not advance)
ReadClock(k, tickAt, clk) == IF tickAt # 0 /\ k >= tickAt THEN clk + 1 ELSE clk

\* the clock when a handler that made `reads` clock reads returns
ClockAfter(reads, tickAt, clk) == ReadClock(reads, tickAt, clk)

\* the clock values the model lets the run reach
InHorizon(clk) == clk \div MsPerMinute <= MaxMinutes /\ clk % MsPerMinute <= MaxMs

CanTickMs(clk) == InHorizon(clk + 1)

----------------------------------------------------------------------------
(* The two Maps *)

DatabaseSet_EvictOldest(db, key, urlData) ==
    IF db = <<>> THEN <<urlData>> ELSE Append(Tail(db), urlData)

DatabaseSet_Skip(db, key, urlData) == db

\* urlDatabase.set(shortCode, urlData): a Map keeps a key's first position
DatabaseSet(db, key, urlData) ==
    IF Has(db, key)
    THEN [db EXCEPT ![IndexOf(db, key)] = urlData]
    ELSE Append(db, urlData)

\* clickAnalytics.has(key)
HasAnalytics(an, key) == \E i \in 1..Len(an) : an[i].key = key

AnalyticsIndex(an, key) ==
    IF HasAnalytics(an, key) THEN CHOOSE i \in 1..Len(an) : an[i].key = key ELSE 0

AnalyticsSet_Skip(an, key, totalClicks, clicks) == an

\* clickAnalytics.set(shortCode, {totalClicks, clicks})
AnalyticsSet(an, key, totalClicks, clicks) ==
    LET entry == [key |-> key, totalClicks |-> totalClicks, clicks |-> clicks]
    IN  IF HasAnalytics(an, key)
        THEN [an EXCEPT ![AnalyticsIndex(an, key)] = entry]
        ELSE Append(an, entry)

\* clickAnalytics.get(shortCode) || { totalClicks: 0, clicks: [] }
AnalyticsOrEmpty(an, key) ==
    IF HasAnalytics(an, key)
    THEN an[AnalyticsIndex(an, key)]
    ELSE [key |-> key, totalClicks |-> 0, clicks |-> <<>>]

Keys(db) == {db[i].shortCode : i \in 1..Len(db)}
AnalyticsKeys(an) == {an[i].key : i \in 1..Len(an)}

----------------------------------------------------------------------------
(* Logging *)

\* The calls of log() one request makes: requestLoggingMiddleware logs the
\* request (line 362), the handler makes handlerCalls calls, and res.end
\* logs the response (line 372) and, for a status of 400 or more, the error
\* (line 377).  log() is async: it writes the entry to the console and to
\* the file, starts axios.post and returns at the await of line 331, so the
\* handler goes on while the delivery is in flight.
LogCalls(handlerCalls, status) ==
    1 + handlerCalls + 1 + (IF status >= 400 THEN 1 ELSE 0)

\* the deliveries in flight after `calls` more calls of log().  The model
\* follows at most maxInFlight of them; the others are taken to settle at
\* once.
Posted(pending, calls, maxInFlight) ==
    IF pending + calls <= maxInFlight THEN pending + calls ELSE maxInFlight

----------------------------------------------------------------------------
(* POST /api/shorten *)

\* how many of the first i records were created by clientIP: the filter of
\* line 98 reads the clock once for each of them (&& short-circuits)
OwnedUpTo(db, clientIP, i) == Cardinality({j \in 1..i : db[j].createdBy = clientIP})

\* lines 98-100: the indices of the records the filter keeps
userUrls(db, clientIP, tickAt, clk) ==
    {i \in 1..Len(db) :
        /\ db[i].createdBy = clientIP
        /\ ReadClock(OwnedUpTo(db, clientIP, i), tickAt, clk) <= db[i].expiryDate}

LimitReached_CountExpired(db, clientIP, tickAt, clk) ==
    Cardinality({i \in 1..Len(db) : db[i].createdBy = clientIP}) >= MaxConcurrentUrls

LimitReached_OffByOne(db, clientIP, tickAt, clk) ==
    Cardinality(userUrls(db, clientIP, tickAt, clk)) > MaxConcurrentUrls

\* line 101
LimitReached(db, clientIP, tickAt, clk) ==
    Cardinality(userUrls(db, clientIP, tickAt, clk)) >= MaxConcurrentUrls

\* line 116
ValidityMinutes_PositiveOnly(validityPeriod) ==
    IF validityPeriod.type = "number" /\ validityPeriod.val > 0
    THEN validityPeriod.val ELSE DefaultValidity

ValidityMinutes(validityPeriod) ==
    IF TruthyNumber(validityPeriod) THEN validityPeriod.val ELSE DefaultValidity

\* line 117, with now the value Date.now() returns
ExpiryDate(now, validityMinutes) == now + validityMinutes * SecondsPerMinute * MsPerSecond

ErrorBody(message) == [error |-> message]

ShortenHandler_AllocateFirst(db, an, clk, uuids, originalUrl, customShortcode, validityPeriod, clientIP, draws, tickAt) ==
    LET unchanged(status, message, reads) ==
            [db |-> db, an |-> an, uuids |-> uuids,
             clock |-> ClockAfter(reads, tickAt, clk),
             status |-> status, body |-> ErrorBody(message)]
        owned == OwnedUpTo(db, clientIP, Len(db))
        allocated == generateShortCode(customShortcode, db, draws)
    IN  IF originalUrl = ""
        THEN unchanged(400, "Original URL is required", 0)
        ELSE IF ~isValidUrl(originalUrl)
        THEN unchanged(400, "Invalid URL format", 0)
        ELSE IF ~allocated.ok
        THEN unchanged(400, allocated.error, 0)
        ELSE IF LimitReached(db, clientIP, tickAt, clk)
        THEN unchanged(429, "Maximum 5 concurrent shortened URLs allowed", owned)
        ELSE LET urlData == [id |-> uuids + 1,
                             originalUrl |-> originalUrl,
                             shortCode |-> allocated.code,
                             createdAt |-> ReadClock(owned + 2, tickAt, clk),
                             expiryDate |-> ExpiryDate(ReadClock(owned + 1, tickAt, clk),
                                                       ValidityMinutes(validityPeriod)),
                             createdBy |-> clientIP,
                             isActive |-> TRUE,
                             validityPeriod |-> ValidityMinutes(validityPeriod)]
             IN  [db |-> DatabaseSet(db, allocated.code, urlData),
                  an |-> AnalyticsSet(an, allocated.code, 0, <<>>),
                  uuids |-> uuids + 1,
                  clock |-> ClockAfter(owned + 2, tickAt, clk),
                  status |-> 200,
                  body |-> [success |-> TRUE,
                            data |-> [originalUrl |-> originalUrl,
                                      shortCode |-> allocated.code,
                                      expiryDate |-> urlData.expiryDate,
                                      validityPeriod |-> urlData.validityPeriod]]]

ShortenHandler_InsertThenRefuse(db, an, clk, uuids, originalUrl, customShortcode, validityPeriod, clientIP, draws, tickAt) ==
    LET unchanged(status, message, reads) ==
            [db |-> db, an |-> an, uuids |-> uuids,
             clock |-> ClockAfter(reads, tickAt, clk),
             status |-> status, body |-> ErrorBody(message)]
        owned == OwnedUpTo(db, clientIP, Len(db))
        allocated == generateShortCode(customShortcode, db, draws)
    IN  IF originalUrl = ""
        THEN unchanged(400, "Original URL is required", 0)
        ELSE IF ~isValidUrl(originalUrl)
        THEN unchanged(400, "Invalid URL format", 0)
        ELSE IF ~allocated.ok
        THEN unchanged(IF LimitReached(db, clientIP, tickAt, clk) THEN 429 ELSE 400,
                       IF LimitReached(db, clientIP, tickAt, clk)
                       THEN "Maximum 5 concurrent shortened URLs allowed"
                       ELSE allocated.error, owned)
        ELSE LET urlData == [id |-> uuids + 1,
                             originalUrl |-> originalUrl,
                             shortCode |-> allocated.code,
                             createdAt |-> ReadClock(owned + 2, tickAt, clk),
                             expiryDate |-> ExpiryDate(ReadClock(owned + 1, tickAt, clk),
                                                       ValidityMinutes(validityPeriod)),
                             createdBy |-> clientIP,
                             isActive |-> TRUE,
                             validityPeriod |-> ValidityMinutes(validityPeriod)]
             IN  [db |-> DatabaseSet(db, allocated.code, urlData),
                  an |-> AnalyticsSet(an, allocated.code, 0, <<>>),
                  uuids |-> uuids + 1,
                  clock |-> ClockAfter(owned + 2, tickAt, clk),
                  status |-> IF LimitReached(db, clientIP, tickAt, clk) THEN 429 ELSE 200,
                  body |-> IF LimitReached(db, clientIP, tickAt, clk)
                           THEN ErrorBody("Maximum 5 concurrent shortened URLs allowed")
                           ELSE [success |-> TRUE,
                                 data |-> [originalUrl |-> originalUrl,
                                           shortCode |-> allocated.code,
                                           expiryDate |-> urlData.expiryDate,
                                           validityPeriod |-> urlData.validityPeriod]]]

\* The handler of lines 81-155 as a function of the state it starts in and
\* of its inputs.  shortUrl (line 145) is the shortCode behind a fixed
\* prefix and is left out of the response.
ShortenHandler(db, an, clk, uuids, originalUrl, customShortcode, validityPeriod, clientIP, draws, tickAt) ==
    LET unchanged(status, message, reads) ==
            [db |-> db, an |-> an, uuids |-> uuids,
             clock |-> ClockAfter(reads, tickAt, clk),
             status |-> status, body |-> ErrorBody(message)]
        owned == OwnedUpTo(db, clientIP, Len(db))
        allocated == generateShortCode(customShortcode, db, draws)
    IN  IF originalUrl = ""
        THEN unchanged(400, "Original URL is required", 0)
        ELSE IF ~isValidUrl(originalUrl)
        THEN unchanged(400, "Invalid URL format", 0)
        ELSE IF LimitReached(db, clientIP, tickAt, clk)
        THEN unchanged(429, "Maximum 5 concurrent shortened URLs allowed", owned)
        ELSE IF ~allocated.ok
        THEN unchanged(400, allocated.error, owned)
        ELSE LET shortCode == allocated.code
                 validityMinutes == ValidityMinutes(validityPeriod)
                 expiryDate == ExpiryDate(ReadClock(owned + 1, tickAt, clk), validityMinutes)
                 urlData == [id |-> uuids + 1,
                             originalUrl |-> originalUrl,
                             shortCode |-> shortCode,
                             createdAt |-> ReadClock(owned + 2, tickAt, clk),
                             expiryDate |-> expiryDate,
                             createdBy |-> clientIP,
                             isActive |-> TRUE,
                             validityPeriod |-> validityMinutes]
             IN  [db |-> DatabaseSet(db, shortCode, urlData),
                  an |-> AnalyticsSet(an, shortCode, 0, <<>>),
                  uuids |-> uuids + 1,
                  clock |-> ClockAfter(owned + 2, tickAt, clk),
                  status |-> 200,
                  body |-> [success |-> TRUE,
                            data |-> [originalUrl |-> originalUrl,
                                      shortCode |-> shortCode,
                                      expiryDate |-> expiryDate,
                                      validityPeriod |-> validityMinutes]]]

\* One request to POST /api/shorten.  maxUrls caps the size of the Registry.
Shorten(originalUrl, customShortcode, validityPeriod, clientIP, draws, tickAt, maxUrls, maxInFlight) ==
    \E o \in {ShortenHandler(urlDatabase, clickAnalytics, clock, uuidCount, originalUrl,
                             customShortcode, validityPeriod, clientIP, draws, tickAt)} :
        /\ tickAt # 0 => CanTickMs(clock)
        /\ Len(o.db) <= maxUrls
        /\ urlDatabase' = o.db
        /\ clickAnalytics' = o.an
        /\ clock' = o.clock
        /\ uuidCount' = o.uuids
        /\ last' = [route |-> "shorten", code |-> <<>>, status |-> o.status, body |-> o.body]
        /\ inFlight' = Posted(inFlight, LogCalls(1, o.status), maxInFlight)

----------------------------------------------------------------------------
(* GET /api/urls *)

\* line 166: what the list keeps of each click
ClickSummary(clicks) ==
    [k \in 1..Len(clicks) |->
        [timestamp |-> clicks[k].timestamp, location |-> clicks[k].location]]

UrlsData_NewestFirst(db, an, clk, tickAt) ==
    [i \in 1..Len(db) |->
        LET url == db[Len(db) + 1 - i]
            analytics == AnalyticsOrEmpty(an, url.shortCode)
        IN  [id |-> url.id,
             originalUrl |-> url.originalUrl,
             shortCode |-> url.shortCode,
             createdAt |-> url.createdAt,
             expiryDate |-> url.expiryDate,
             createdBy |-> url.createdBy,
             isActive |-> url.isActive,
             validityPeriod |-> url.validityPeriod,
             totalClicks |-> analytics.totalClicks,
             isExpired |-> ReadClock(i, tickAt, clk) > url.expiryDate,
             clickHistory |-> ClickSummary(analytics.clicks)]]

\* lines 160-171: the clock is read once per record (line 165)
UrlsData(db, an, clk, tickAt) ==
    [i \in 1..Len(db) |->
        LET url == db[i]
            analytics == AnalyticsOrEmpty(an, url.shortCode)
        IN  [id |-> url.id,
             originalUrl |-> url.originalUrl,
             shortCode |-> url.shortCode,
             createdAt |-> url.createdAt,
             expiryDate |-> url.expiryDate,
             createdBy |-> url.createdBy,
             isActive |-> url.isActive,
             validityPeriod |-> url.validityPeriod,
             totalClicks |-> analytics.totalClicks,
             isExpired |-> ReadClock(i, tickAt, clk) > url.expiryDate,
             clickHistory |-> ClickSummary(analytics.clicks)]]

GetUrls(tickAt, maxInFlight) ==
    /\ tickAt # 0 => CanTickMs(clock)
    /\ clock' = ClockAfter(Len(urlDatabase), tickAt, clock)
    /\ last' = [route |-> "urls", code |-> <<>>, status |-> 200,
                body |-> [success |-> TRUE,
                          data |-> UrlsData(urlDatabase, clickAnalytics, clock, tickAt)]]
    /\ inFlight' = Posted(inFlight, LogCalls(0, 200), maxInFlight)
    /\ UNCHANGED <<urlDatabase, clickAnalytics, uuidCount>>

----------------------------------------------------------------------------
(* GET /api/analytics/:shortCode *)

\* lines 185-210: the clock is read once (line 202)
AnalyticsHandler(db, an, clk, shortCode, tickAt) ==
    IF IndexOf(db, shortCode) = 0
    THEN [status |-> 404, body |-> ErrorBody("Short URL not found"), reads |-> 0]
    ELSE LET urlData == db[IndexOf(db, shortCode)]
             analytics == AnalyticsOrEmpty(an, shortCode)
         IN  [status |-> 200,
              body |-> [success |-> TRUE,
                        data |-> [id |-> urlData.id,
                                  originalUrl |-> urlData.originalUrl,
                                  shortCode |-> urlData.shortCode,
                                  createdAt |-> urlData.createdAt,
                                  expiryDate |-> urlData.expiryDate,
                                  createdBy |-> urlData.createdBy,
                                  isActive |-> urlData.isActive,
                                  validityPeriod |-> urlData.validityPeriod,
                                  totalClicks |-> analytics.totalClicks,
                                  clickHistory |-> analytics.clicks,
                                  isExpired |-> ReadClock(1, tickAt, clk) > urlData.expiryDate]],
              reads |-> 1]

GetAnalytics(shortCode, tickAt, maxInFlight) ==
    \E o \in {AnalyticsHandler(urlDatabase, clickAnalytics, clock, shortCode, tickAt)} :
        /\ tickAt # 0 => CanTickMs(clock)
        /\ clock' = ClockAfter(o.reads, tickAt, clock)
        /\ last' = [route |-> "analytics", code |-> shortCode,
                    status |-> o.status, body |-> o.body]
        /\ inFlight' = Posted(inFlight, LogCalls(0, o.status), maxInFlight)
        /\ UNCHANGED <<urlDatabase, clickAnalytics, uuidCount>>

----------------------------------------------------------------------------
(* GET /:shortCode *)

mockLocations == <<"New York, US", "London, UK", "Tokyo, JP", "Mumbai, IN", "Sydney, AU">>

\* lines 71-76: draw is Math.floor(Math.random() * mockLocations.length)
getCoarseLocation(draw) == mockLocations[draw + 1]

\* line 217
UserAgentOf(header) == IF header = "" THEN "unknown" ELSE header

RecordClick_CountOnly(an, key, click) ==
    LET i == AnalyticsIndex(an, key)
    IN  [an EXCEPT ![i] = [key |-> an[i].key,
                           totalClicks |-> an[i].totalClicks + 1,
                           clicks |-> an[i].clicks]]

RecordClick_Unshift(an, key, click) ==
    LET i == AnalyticsIndex(an, key)
    IN  [an EXCEPT ![i] = [key |-> an[i].key,
                           totalClicks |-> an[i].totalClicks + 1,
                           clicks |-> <<click>> \o an[i].clicks]]

\* lines 239-245: analytics.totalClicks++ and analytics.clicks.push(click)
\* on the entry the Map holds
RecordClick(an, key, click) ==
    LET i == AnalyticsIndex(an, key)
    IN  [an EXCEPT ![i] = [key |-> an[i].key,
                           totalClicks |-> an[i].totalClicks + 1,
                           clicks |-> Append(an[i].clicks, click)]]

RedirectHandler_ClickFirst(db, an, clk, shortCode, clientIP, header, locationDraw, tickAt) ==
    IF IndexOf(db, shortCode) = 0
    THEN [an |-> an, clock |-> clk, status |-> 404,
          body |-> ErrorBody("Short URL not found")]
    ELSE LET urlData == db[IndexOf(db, shortCode)]
             click == [timestamp |-> ReadClock(1, tickAt, clk),
                       ip |-> clientIP,
                       userAgent |-> UserAgentOf(header),
                       location |-> getCoarseLocation(locationDraw)]
         IN  IF ~HasAnalytics(an, shortCode)
             THEN [an |-> an, clock |-> ClockAfter(1, tickAt, clk), status |-> 500,
                   body |-> ErrorBody("Internal server error")]
             ELSE IF ReadClock(2, tickAt, clk) > urlData.expiryDate
             THEN [an |-> RecordClick(an, shortCode, click),
                   clock |-> ClockAfter(2, tickAt, clk), status |-> 410,
                   body |-> [error |-> "Short URL has expired",
                             expiredAt |-> urlData.expiryDate]]
             ELSE [an |-> RecordClick(an, shortCode, click),
                   clock |-> ClockAfter(2, tickAt, clk),
                   status |-> 302,
                   body |-> [location |-> urlData.originalUrl]]

\* lines 213-257.  The clock is read at line 227 and at line 241.  With no
\* analytics entry for the code, line 239 throws a TypeError, which the
\* catch of line 253 answers with status 500.
RedirectHandler(db, an, clk, shortCode, clientIP, header, locationDraw, tickAt) ==
    IF IndexOf(db, shortCode) = 0
    THEN [an |-> an, clock |-> clk, status |-> 404,
          body |-> ErrorBody("Short URL not found")]
    ELSE LET urlData == db[IndexOf(db, shortCode)]
         IN  IF ReadClock(1, tickAt, clk) > urlData.expiryDate
             THEN [an |-> an, clock |-> ClockAfter(1, tickAt, clk), status |-> 410,
                   body |-> [error |-> "Short URL has expired",
                             expiredAt |-> urlData.expiryDate]]
             ELSE IF ~HasAnalytics(an, shortCode)
             THEN [an |-> an, clock |-> ClockAfter(1, tickAt, clk), status |-> 500,
                   body |-> ErrorBody("Internal server error")]
             ELSE LET click == [timestamp |-> ReadClock(2, tickAt, clk),
                                ip |-> clientIP,
                                userAgent |-> UserAgentOf(header),
                                location |-> getCoarseLocation(locationDraw)]
                  IN  [an |-> RecordClick(an, shortCode, click),
                       clock |-> ClockAfter(2, tickAt, clk),
                       status |-> 302,
                       body |-> [location |-> urlData.originalUrl]]

\* One request to GET /:shortCode.  maxClicks caps the clicks of one code.
Redirect(shortCode, clientIP, header, locationDraw, tickAt, maxClicks, maxInFlight) ==
    \E o \in {RedirectHandler(urlDatabase, clickAnalytics, clock, shortCode, clientIP,
                              header, locationDraw, tickAt)} :
        /\ tickAt # 0 => CanTickMs(clock)
        /\ \A i \in 1..Len(o.an) : o.an[i].totalClicks <= maxClicks
        /\ clickAnalytics' = o.an
        /\ clock' = o.clock
        /\ last' = [route |-> "redirect", code |-> shortCode,
                    status |-> o.status, body |-> o.body]
        /\ inFlight' = Posted(inFlight, LogCalls(1, o.status), maxInFlight)
        /\ UNCHANGED <<urlDatabase, uuidCount>>

----------------------------------------------------------------------------
(* GET /api/health *)

ActiveUrls_Strict(db, clk, tickAt) ==
    Cardinality({i \in 1..Len(db) : ReadClock(1 + i, tickAt, clk) < db[i].expiryDate})

\* lines 260-268: the clock is read for the timestamp (line 264), then once
\* per record by the filter of line 266
ActiveUrls(db, clk, tickAt) ==
    Cardinality({i \in 1..Len(db) : ReadClock(1 + i, tickAt, clk) <= db[i].expiryDate})

Health(tickAt, maxInFlight) ==
    /\ tickAt # 0 => CanTickMs(clock)
    /\ clock' = ClockAfter(1 + Len(urlDatabase), tickAt, clock)
    /\ last' = [route |-> "health", code |-> <<>>, status |-> 200,
                body |-> [success |-> TRUE,
                          message |-> "URL Shortener API is running",
                          timestamp |-> ReadClock(1, tickAt, clock),
                          totalUrls |-> Len(urlDatabase),
                          activeUrls |-> ActiveUrls(urlDatabase, clock, tickAt)]]
    /\ inFlight' = Posted(inFlight, LogCalls(0, 200), maxInFlight)
    /\ UNCHANGED <<urlDatabase, clickAnalytics, uuidCount>>

----------------------------------------------------------------------------
(* Time passing between requests *)

\* no request is handled while the clock moves by d
Tick(d) ==
    /\ InHorizon(clock + d)
    /\ clock' = clock + d
    /\ last' = [route |-> "tick", code |-> <<>>, status |-> 0, body |-> ErrorBody("")]
    /\ UNCHANGED <<urlDatabase, clickAnalytics, uuidCount, inFlight>>

----------------------------------------------------------------------------
(* The service: any request at any time.  The sets name the inputs the     *)
(* requests are drawn from: shortenCases holds request bodies of           *)
(* POST /api/shorten together with the values Math.random yields while     *)
(* they are handled, redirectCases the caller, User-Agent header and       *)
(* location draw of GET /:shortCode.                                       *)

\* how one axios.post to the log server can settle
SinkOutcomes == {"delivered", "failed", "timeout"}

Deliver_RollbackOnFailure(outcome) ==
    /\ inFlight > 0
    /\ inFlight' = inFlight - 1
    /\ last' = [route |-> "log", code |-> <<>>, status |-> 0, body |-> ErrorBody(outcome)]
    /\ urlDatabase' = IF outcome = "delivered" \/ Len(urlDatabase) = 0 THEN urlDatabase
                       ELSE SubSeq(urlDatabase, 1, Len(urlDatabase) - 1)
    /\ clickAnalytics' = IF outcome = "delivered" \/ Len(clickAnalytics) = 0 THEN clickAnalytics
                          ELSE SubSeq(clickAnalytics, 1, Len(clickAnalytics) - 1)
    /\ UNCHANGED <<clock, uuidCount>>

\* log() resumes after `await axios.post(...)`: the post was answered
\* ("delivered"), was refused or lost ("failed"), or ran into its 5000 ms
\* timeout ("timeout").  A rejection is caught and written to the console;
\* the entry is returned to a caller that dropped the promise.  No Map is
\* in scope of log().
Deliver(outcome) ==
    /\ inFlight > 0
    /\ inFlight' = inFlight - 1
    /\ last' = [route |-> "log", code |-> <<>>, status |-> 0, body |-> ErrorBody(outcome)]
    /\ UNCHANGED <<urlDatabase, clickAnalytics, clock, uuidCount>>

Init ==
    /\ urlDatabase = <<>>
    /\ clickAnalytics = <<>>
    /\ clock = 0
    /\ uuidCount = 0
    /\ last = [route |-> "none", code |-> <<>>, status |-> 0, body |-> ErrorBody("")]
    /\ inFlight = 0

\* the places where the clock may advance inside a handler that reads it
\* `reads` times: before any one read when drift is allowed, else nowhere
TickPositions(drift, reads) == IF drift THEN 0..reads ELSE {0}

Service(shortenCases, ips, pathCodes, redirectCases, steps, drift, maxUrls, maxClicks, maxInFlight) ==
    \/ \E c \in shortenCases, clientIP \in ips,
          tickAt \in TickPositions(drift, Len(urlDatabase) + 2) :
            Shorten(c.originalUrl, c.customShortcode, c.validityPeriod, clientIP,
                    c.draws, tickAt, maxUrls, maxInFlight)
    \/ \E tickAt \in TickPositions(drift, Len(urlDatabase)) : GetUrls(tickAt, maxInFlight)
    \/ \E shortCode \in pathCodes, tickAt \in TickPositions(drift, 1) :
            GetAnalytics(shortCode, tickAt, maxInFlight)
    \/ \E shortCode \in pathCodes, c \in redirectCases, tickAt \in TickPositions(drift, 2) :
            Redirect(shortCode, c.clientIP, c.header, c.locationDraw, tickAt, maxClicks,
                     maxInFlight)
    \/ \E tickAt \in TickPositions(drift, Len(urlDatabase) + 1) : Health(tickAt, maxInFlight)
    \/ \E d \in steps : Tick(d)

----------------------------------------------------------------------------
(* Inputs *)

Code20 == [i \in 1..MaxShortcodeLength |-> "z"]
Code21 == [i \in 1..(MaxShortcodeLength + 1) |-> "z"]
CodeA == <<"a", "a", "a", "a", "a", "a">>
CodeB == <<"b", "a", "a", "a", "a", "a">>
CodeC == <<"a", "-", "_">>

GoodUrl == "https://example.com"
BadUrls == {"", "not a url", "ftp://example.com"}

IPs == {"10.0.0.1", "10.0.0.2"}

\* RandomCode maps these to CodeA and CodeB
RandomDraws == {<<0, 0, 0, 0, 0, 0>>, <<1, 0, 0, 0, 0, 0>>}
DrawSeqs == UNION {[1..n -> RandomDraws] : n \in 1..MaxDraws}

PathCodes == {CodeA, CodeB, CodeC, <<"n", "o", "n", "e">>}

\* requests that stop at the URL checks
UrlCases ==
    [originalUrl : BadUrls, customShortcode : {Undefined}, validityPeriod : {NoNumber},
     draws : {<<>>}]

\* requests with a custom code: too short, ill-formed, and two well-formed
\* ones, one of which is a code the generator draws too
CustomCases(validities) ==
    [originalUrl : {GoodUrl},
     customShortcode : {Str(<<"a", "b">>), Str(<<"a", "b", "c", "!">>), Str(CodeC), Str(CodeA)},
     validityPeriod : validities, draws : {<<>>}]

\* requests for a generated code: no custom code, or the empty string
GeneratedCases(validities, drawSeqs) ==
    [originalUrl : {GoodUrl}, customShortcode : {Undefined}, validityPeriod : validities,
     draws : drawSeqs]

EmptyCustomCases(validities) ==
    [originalUrl : {GoodUrl}, customShortcode : {Str(<<>>)}, validityPeriod : validities,
     draws : {<<d>> : d \in RandomDraws}]

OneClick == {[clientIP |-> "10.0.0.2", header |-> "", locationDraw |-> 0]}

\* The general specification: every kind of request, the clock moving by
\* whole minutes between requests.
Next ==
    Service(UrlCases \cup CustomCases({NoNumber, Num(-1)})
                \cup GeneratedCases({NoNumber, Num(-1)}, DrawSeqs)
                \cup EmptyCustomCases({NoNumber}),
            IPs, PathCodes, OneClick, {MsPerMinute}, FALSE, MaxUrls, MaxClicks, 0)

Spec == Init /\ [][Next]_vars

\* The timing specification: generated codes only, every validity period,
\* the clock moving by milliseconds and minutes, also inside the handlers.
TwoClicks ==
    {[clientIP |-> "10.0.0.1", header |-> "", locationDraw |-> 0],
     [clientIP |-> "10.0.0.2", header |-> "curl/8.0", locationDraw |-> 4]}

NextTime ==
    Service(GeneratedCases({NoNumber, Num(0), Num(1), Num(-1)}, {<<d>> : d \in RandomDraws}),
            {"10.0.0.1"}, {CodeA, CodeB}, OneClick, {1, MsPerMinute}, TRUE,
            MaxUrls, MaxClicks, 0)

SpecTime == Init /\ [][NextTime]_vars

\* The click specification: two clients resolving the same codes.
NextClicks ==
    Service(GeneratedCases({NoNumber}, {<<d>> : d \in RandomDraws}), {"10.0.0.1"}, {CodeA, CodeB}, TwoClicks,
            {1}, TRUE, MaxUrls, MaxClicks + 1, 0)

SpecClicks == Init /\ [][NextClicks]_vars

\* The quota specification: enough records to fill a creator's quota.  The
\* generator is taken to draw a code not drawn before (collisions are the
\* general specification's business), the clock moves by just over a
\* minute, and the codes asked for by GET are codes nobody created (clicks
\* are the click specification's business).
NoCode == <<"n", "o", "n", "e">>

QuotaDraw(n) == <<n, 0, 0, 0, 0, 0>>

\* the first record of the Registry is valid for one minute and the later
\* ones for two, so that one record of a creator expires before the others
QuotaValidity == IF Len(urlDatabase) = 0 THEN Num(1) ELSE Num(2)

QuotaCases ==
    [originalUrl : {GoodUrl}, customShortcode : {Undefined}, validityPeriod : {QuotaValidity},
     draws : {<<QuotaDraw(Len(urlDatabase))>>}]
    \cup
    [originalUrl : {GoodUrl}, customShortcode : {Str(<<"a", "b">>), Str(CodeA)},
     validityPeriod : {QuotaValidity}, draws : {<<>>}]
    \cup
    [originalUrl : {"not a url"}, customShortcode : {Undefined}, validityPeriod : {QuotaValidity},
     draws : {<<>>}]

NextQuota ==
    Service(QuotaCases, IPs, {NoCode}, OneClick, {MsPerMinute + 1}, FALSE,
            QuotaUrls, MaxClicks, 0)

SpecQuota == Init /\ [][NextQuota]_vars

----------------------------------------------------------------------------
(* Properties *)

\* the records of a creator that have not expired at time now
ActiveCount(db, creator, now) ==
    Cardinality({i \in 1..Len(db) : db[i].createdBy = creator /\ now <= db[i].expiryDate})

QuotaMessage == "Maximum 5 concurrent shortened URLs allowed"

\* C1 (quota): in every reachable state no creator has more than 5 records
\* with now <= expiryDate; and whatever a creator who holds 5 such records
\* sends to POST /api/shorten, nothing is stored, and a request that passes
\* the two URL checks (which come first) is answered 429, quota exceeded.
C1_Quota ==
    /\ \A creator \in IPs : ActiveCount(urlDatabase, creator, clock) <= MaxConcurrentUrls
    /\ \A creator \in IPs, c \in QuotaCases :
          ActiveCount(urlDatabase, creator, clock) >= MaxConcurrentUrls =>
            LET o == ShortenHandler(urlDatabase, clickAnalytics, clock, uuidCount,
                                    c.originalUrl, c.customShortcode, c.validityPeriod,
                                    creator, c.draws, 0)
            IN  /\ o.db = urlDatabase
                /\ o.an = clickAnalytics
                /\ o.status # 200
                /\ isValidUrl(c.originalUrl) =>
                      o.status = 429 /\ o.body = ErrorBody(QuotaMessage)

\* a creator's sixth concurrent request has just been refused, while
\* another creator holds a record too
C1_Witness ==
    /\ last.route = "shorten" /\ last.status = 429
    /\ \E creator \in IPs : ActiveCount(urlDatabase, creator, clock) = MaxConcurrentUrls
    /\ Len(urlDatabase) = MaxConcurrentUrls + 1

\* no two records of the Registry carry the same short code
NoSharedCode(db) ==
    \A i, j \in 1..Len(db) : db[i].shortCode = db[j].shortCode => i = j

\* every record db holds is held, unchanged and at the same place, by db2
Keeps(db, db2) ==
    /\ Len(db2) >= Len(db)
    /\ \A i \in 1..Len(db) : db2[i] = db[i]

Expired(urlData, now) == now > urlData.expiryDate

\* C2 (uniqueness): after every step no two records share a shortCode, and
\* every record held before the step, live or expired, is still held as it
\* was: a create with a custom or a generated code never takes the place of
\* a record that holds the code.
C2_Uniqueness ==
    [][NoSharedCode(urlDatabase') /\ Keeps(urlDatabase, urlDatabase')]_vars

\* a custom code has just been refused because an expired record holds it,
\* and the Registry holds a record under a generated code as well
C2_Witness ==
    /\ last.route = "shorten" /\ last.status = 400
    /\ last.body.error = CollisionMessage
    /\ Len(urlDatabase) = 2
    /\ \E i \in 1..Len(urlDatabase) :
          urlDatabase[i].shortCode = CodeC /\ Expired(urlDatabase[i], clock)
    /\ \E i \in 1..Len(urlDatabase) : urlDatabase[i].shortCode = CodeB

\* C3: when POST /api/shorten answers 200, the shortCode of the record it
\* returns was not in the Registry before the request and is in it after,
\* mapped to the record returned (same URL, expiry date and validity), and
\* the code has an analytics entry with totalClicks 0 and no clicks.
C3_CreateReturnsFreshRecord ==
    [][(last'.route = "shorten" /\ last'.status = 200) =>
        LET data == last'.body.data
            held == {i \in 1..Len(urlDatabase') : urlDatabase'[i].shortCode = data.shortCode}
            counted == {i \in 1..Len(clickAnalytics') : clickAnalytics'[i].key = data.shortCode}
        IN  /\ data.shortCode \notin Keys(urlDatabase)
            /\ Cardinality(held) = 1
            /\ \A i \in held :
                  /\ urlDatabase'[i].originalUrl = data.originalUrl
                  /\ urlDatabase'[i].expiryDate = data.expiryDate
                  /\ urlDatabase'[i].validityPeriod = data.validityPeriod
            /\ Cardinality(counted) = 1
            /\ \A i \in counted :
                  clickAnalytics'[i].totalClicks = 0 /\ clickAnalytics'[i].clicks = <<>>
      ]_vars

\* a second record has just been created, under a generated code drawn
\* after a collision with the first
C3_Witness ==
    /\ last.route = "shorten" /\ last.status = 200
    /\ Len(urlDatabase) = 2
    /\ urlDatabase[1].shortCode = CodeA
    /\ last.body.data.shortCode = CodeB

\* C5: in every state the short codes of the Registry are the short codes
\* with an analytics entry, so no request finds a record without its entry.
C5_RegistryMatchesAnalytics == Keys(urlDatabase) = AnalyticsKeys(clickAnalytics)

\* a list request has just been answered from a Registry of two records
C5_Witness ==
    /\ last.route = "urls" /\ last.status = 200
    /\ Len(urlDatabase) = 2
    /\ Len(last.body.data) = 2

\* the characters the claim allows in a custom code
Letters ==
    {"a","b","c","d","e","f","g","h","i","j","k","l","m",
     "n","o","p","q","r","s","t","u","v","w","x","y","z"}
CapitalLetters ==
    {"A","B","C","D","E","F","G","H","I","J","K","L","M",
     "N","O","P","Q","R","S","T","U","V","W","X","Y","Z"}
Digits == {"0","1","2","3","4","5","6","7","8","9"}
CustomAlphabet == Letters \cup CapitalLetters \cup Digits \cup {"-", "_"}

\* custom codes of every kind: of 2, 3, 20 and 21 characters, well-formed
\* and not, and the codes the Registry may hold
CustomCodes ==
    {<<"a", "b">>, <<"a", "b", "c">>, <<"a", "b", "c", "!">>, <<"!">>, <<"a", "!">>,
     <<"Z", "9", "_">>, <<"a", " ", "b">>, Code20, Code21, Append(Code20, "!"),
     CodeA, CodeB, CodeC}

\* C6 (custom code validation): in every reachable state, allocating with a
\* (non-empty) custom code fails with the format error unless every
\* character is a letter, a digit, a hyphen or an underscore; otherwise
\* fails with the length error unless the code has 3 to 20 characters;
\* otherwise fails with the collision error if the Registry holds the code;
\* and otherwise returns the code unchanged.
C6_CustomCodeValidation ==
    \A code \in CustomCodes :
        LET result == generateShortCode(Str(code), urlDatabase, <<>>)
        IN  IF \E i \in 1..Len(code) : code[i] \notin CustomAlphabet
            THEN ~result.ok /\ result.error = FormatMessage
            ELSE IF Len(code) < 3 \/ Len(code) > 20
            THEN ~result.ok /\ result.error = LengthMessage
            ELSE IF code \in Keys(urlDatabase)
            THEN ~result.ok /\ result.error = CollisionMessage
            ELSE result.ok /\ result.code = code

\* a well-formed custom code has just been refused because the Registry
\* holds it, while another custom code would be accepted
C6_Witness ==
    /\ last.route = "shorten" /\ last.status = 400
    /\ last.body.error = CollisionMessage
    /\ CodeA \in Keys(urlDatabase)
    /\ CodeC \notin Keys(urlDatabase)

NotFoundMessage == "Short URL not found"

\* C10: in every reachable state, for every short code the Registry does not
\* hold, GET /api/analytics/:shortCode and GET /:shortCode answer 404,
\* short URL not found, and GET /:shortCode leaves every analytics entry as
\* it is; and a step that answers 404 changes neither Map.
C10_UnknownCodeNotFound ==
    [][/\ \A shortCode \in PathCodes \ Keys(urlDatabase) :
            /\ \A tickAt \in 0..1 :
                  LET o == AnalyticsHandler(urlDatabase, clickAnalytics, clock, shortCode, tickAt)
                  IN  o.status = 404 /\ o.body = ErrorBody(NotFoundMessage)
            /\ \A c \in TwoClicks, tickAt \in 0..2 :
                  LET o == RedirectHandler(urlDatabase, clickAnalytics, clock, shortCode,
                                           c.clientIP, c.header, c.locationDraw, tickAt)
                  IN  /\ o.status = 404 /\ o.body = ErrorBody(NotFoundMessage)
                      /\ o.an = clickAnalytics
       /\ (last'.route \in {"analytics", "redirect"} /\ last'.status = 404) =>
            /\ last'.code \notin Keys(urlDatabase)
            /\ UNCHANGED <<urlDatabase, clickAnalytics>>
      ]_vars

\* a redirect to a code the Registry does not hold has just been answered
\* 404, while the Registry holds two other codes, one of them clicked
C10_Witness ==
    /\ last.route = "redirect" /\ last.status = 404
    /\ last.code \notin Keys(urlDatabase)
    /\ Len(urlDatabase) = 2
    /\ \E i \in 1..Len(clickAnalytics) : clickAnalytics[i].totalClicks = 1

\* C7, as the claim states it: every record the Registry holds has
\* expiryDate = createdAt + validityPeriod minutes, to the millisecond.
\* Line 117 takes Date.now() for expiryDate and line 124 takes new Date()
\* for createdAt, so a clock that moves between the two reads breaks it.
C7_ExpiryIsCreatedAtPlusValidity ==
    \A i \in 1..Len(urlDatabase) :
        urlDatabase[i].expiryDate =
            urlDatabase[i].createdAt + urlDatabase[i].validityPeriod * MsPerMinute

\* C8 (expiry monotonicity): a record that is expired before a step (the
\* clock is past its expiryDate) is, after the step, still held under the
\* same code with the same expiryDate and still expired, whatever the step
\* is (create, resolve, list, analytics, health or time passing); and every
\* request for an expired record sees it expired: GET /:shortCode answers
\* 410 and GET /api/analytics/:shortCode reports isExpired.
C8_ExpiryMonotone ==
    [][\A i \in 1..Len(urlDatabase) :
          Expired(urlDatabase[i], clock) =>
              /\ i <= Len(urlDatabase')
              /\ urlDatabase'[i].shortCode = urlDatabase[i].shortCode
              /\ urlDatabase'[i].expiryDate = urlDatabase[i].expiryDate
              /\ Expired(urlDatabase'[i], clock')
              /\ \A tickAt \in 0..1 :
                    /\ RedirectHandler(urlDatabase, clickAnalytics, clock,
                                       urlDatabase[i].shortCode, "10.0.0.2", "", 0,
                                       tickAt).status = 410
                    /\ AnalyticsHandler(urlDatabase, clickAnalytics, clock,
                                        urlDatabase[i].shortCode, tickAt).body.data.isExpired
      ]_vars

\* a record valid for one minute has been clicked while it was live, has
\* expired since, and a redirect to it has just been answered 410
C8_Witness ==
    /\ last.route = "redirect" /\ last.status = 410
    /\ \E i \in 1..Len(urlDatabase) :
          /\ urlDatabase[i].shortCode = last.code
          /\ urlDatabase[i].validityPeriod = 1
          /\ Expired(urlDatabase[i], clock)
          /\ AnalyticsOrEmpty(clickAnalytics, last.code).totalClicks = 1

\* C4 (analytics consistency): in every reachable state, every analytics
\* entry has totalClicks equal to the length of its clicks, whatever
\* requests for the same code came before.
C4_TotalClicksIsLength ==
    \A i \in 1..Len(clickAnalytics) :
        clickAnalytics[i].totalClicks = Len(clickAnalytics[i].clicks)

\* one code has just been resolved for the second time
C4_Witness ==
    /\ last.route = "redirect" /\ last.status = 302
    /\ AnalyticsOrEmpty(clickAnalytics, last.code).totalClicks = 2
    /\ Len(AnalyticsOrEmpty(clickAnalytics, last.code).clicks) = 2

\* the click a client's request records when the clock reads now
ClickOf(c, now) ==
    [timestamp |-> now, ip |-> c.clientIP, userAgent |-> UserAgentOf(c.header),
     location |-> getCoarseLocation(c.locationDraw)]

\* C9 (click recording): a successful resolve (302) of a code adds one to
\* that code's totalClicks and puts the request's click after the clicks
\* the entry held, and leaves every other entry as it was; no other step
\* changes an entry the analytics held.  An entry starts at 0 clicks, so
\* after n successful resolves of a code, however interleaved with requests
\* for other codes, its totalClicks is n and its clicks are those n clicks
\* in call order.
C9_ClicksInCallOrder ==
    [][/\ Len(clickAnalytics') >= Len(clickAnalytics)
       /\ \A i \in 1..Len(clickAnalytics) :
            IF /\ last'.route = "redirect" /\ last'.status = 302
               /\ clickAnalytics[i].key = last'.code
            THEN /\ clickAnalytics'[i].key = clickAnalytics[i].key
                 /\ clickAnalytics'[i].totalClicks = clickAnalytics[i].totalClicks + 1
                 /\ \E c \in TwoClicks, now \in {clock, clock'} :
                       clickAnalytics'[i].clicks =
                           Append(clickAnalytics[i].clicks, ClickOf(c, now))
            ELSE clickAnalytics'[i] = clickAnalytics[i]
       /\ \A i \in (Len(clickAnalytics) + 1)..Len(clickAnalytics') :
            clickAnalytics'[i].totalClicks = 0 /\ clickAnalytics'[i].clicks = <<>>
      ]_vars

\* a code resolved by one client and then by the other, with a resolve of
\* another code in between, holds the two clicks in that order
C9_Witness ==
    /\ last.route = "redirect" /\ last.status = 302
    /\ Len(clickAnalytics) = 2
    /\ clickAnalytics[2].totalClicks = 1
    /\ clickAnalytics[1].totalClicks = 2
    /\ clickAnalytics[1].key = last.code
    /\ clickAnalytics[1].clicks[1].ip = "10.0.0.1"
    /\ clickAnalytics[1].clicks[2].ip = "10.0.0.2"
    /\ clickAnalytics[1].clicks[1].timestamp <= clickAnalytics[2].clicks[1].timestamp
    /\ clickAnalytics[2].clicks[1].timestamp <= clickAnalytics[1].clicks[2].timestamp
    /\ clickAnalytics[1].clicks[1].timestamp < clickAnalytics[1].clicks[2].timestamp

ExpiredMessage == "Short URL has expired"

\* C11 (resolve of an expired code): a GET /:shortCode that is answered 410
\* is for a code the Registry holds, whose record is expired when the
\* request ends; the answer carries expiredAt equal to the record's
\* expiryDate and the step changes neither Map, so the code's totalClicks
\* and clicks are what they were.  And every GET /:shortCode for a record
\* that is expired when the request starts is answered so.
C11_ExpiredResolve ==
    [][/\ (last'.route = "redirect" /\ last'.status = 410) =>
            /\ \E i \in 1..Len(urlDatabase) :
                  /\ urlDatabase[i].shortCode = last'.code
                  /\ Expired(urlDatabase[i], clock')
                  /\ last'.body.error = ExpiredMessage
                  /\ last'.body.expiredAt = urlDatabase[i].expiryDate
            /\ AnalyticsOrEmpty(clickAnalytics', last'.code) =
                   AnalyticsOrEmpty(clickAnalytics, last'.code)
            /\ UNCHANGED <<urlDatabase, clickAnalytics>>
       /\ \A i \in 1..Len(urlDatabase) :
            Expired(urlDatabase[i], clock) =>
               \A c \in TwoClicks, tickAt \in 0..2 :
                  LET o == RedirectHandler(urlDatabase, clickAnalytics, clock,
                                           urlDatabase[i].shortCode, c.clientIP, c.header,
                                           c.locationDraw, tickAt)
                  IN  /\ o.status = 410
                      /\ o.body.expiredAt = urlDatabase[i].expiryDate
                      /\ o.an = clickAnalytics
      ]_vars

\* a record created with a positive validity has expired with no click, the
\* clock having passed its expiryDate by a millisecond, and a redirect to
\* it has just been answered 410
C11_Witness ==
    /\ last.route = "redirect" /\ last.status = 410
    /\ \E i \in 1..Len(urlDatabase) :
          /\ urlDatabase[i].shortCode = last.code
          /\ urlDatabase[i].validityPeriod = 1
          /\ clock = urlDatabase[i].expiryDate + 1
          /\ last.body.expiredAt = urlDatabase[i].expiryDate
          /\ AnalyticsOrEmpty(clickAnalytics, last.code).totalClicks = 0

\* validity periods a request may carry: none, zero, positive, negative
SuppliedValidities == {NoNumber, Num(0), Num(1), Num(2), Num(-1), Num(-2)}

\* C12 (default validity): in every reachable state, a create that
\* succeeds stores validityPeriod 30 when the request carries no validity
\* period or zero, and the supplied value otherwise, negative ones included,
\* with expiryDate that many minutes from the clock the handler read; and a
\* record created with a negative value is expired from the start: a
\* GET /:shortCode right after the create is answered 410.
C12_DefaultValidity ==
    \A validityPeriod \in SuppliedValidities, draw \in RandomDraws, tickAt \in 0..2 :
        \A o \in {ShortenHandler(urlDatabase, clickAnalytics, clock, uuidCount, GoodUrl,
                                 Undefined, validityPeriod, "10.0.0.2", <<draw>>, tickAt)} :
        LET urlData == o.db[Len(o.db)]
        IN  o.status = 200 =>
              /\ urlData.validityPeriod =
                    IF validityPeriod = NoNumber \/ validityPeriod = Num(0)
                    THEN 30 ELSE validityPeriod.val
              /\ o.body.data.validityPeriod = urlData.validityPeriod
              /\ \E now \in {clock, o.clock} :
                    urlData.expiryDate = now + urlData.validityPeriod * 60000
              /\ (validityPeriod.type = "number" /\ validityPeriod.val < 0) =>
                    /\ Expired(urlData, o.clock)
                    /\ \A readAt \in 0..2 :
                          RedirectHandler(o.db, o.an, o.clock, urlData.shortCode,
                                          "10.0.0.2", "", 0, readAt).status = 410

\* a record created with validity -1 was expired when it was created, and
\* the redirect that followed at once has been answered 410; the Registry
\* also holds a record created with the default validity
C12_Witness ==
    /\ last.route = "redirect" /\ last.status = 410
    /\ \E i, j \in 1..Len(urlDatabase) :
          /\ urlDatabase[i].shortCode = last.code
          /\ urlDatabase[i].validityPeriod = -1
          /\ urlDatabase[i].createdAt > urlDatabase[i].expiryDate
          /\ clock = urlDatabase[i].createdAt
          /\ urlDatabase[j].validityPeriod = 30

\* the failure the claim asks for when the retries are used up
CodeSpaceExhaustedMessage == "CodeSpaceExhausted"

\* C13, as the claim states it: in every reachable state an allocation with
\* no custom code either returns a drawn code the Registry does not hold,
\* or, its retries used up, fails with CodeSpaceExhausted.  The code has no
\* retry bound and no such failure: line 52 recurses for as long as the
\* draws collide, and what ends a run of collisions is the engine's
\* RangeError, which line 112 answers as a 400 with the engine's message.
C13_BoundedRetries ==
    \A draws \in DrawSeqs :
        LET result == generateShortCode(Undefined, urlDatabase, draws)
        IN  IF result.ok
            THEN /\ result.code \notin Keys(urlDatabase)
                 /\ \E k \in 1..Len(draws) : result.code = RandomCode(draws[k])
            ELSE result.error = CodeSpaceExhaustedMessage

MissingUrlMessage == "Original URL is required"
InvalidUrlMessage == "Invalid URL format"

\* requests that fail one check or several at once
OrderUrls == {"", "not a url", "ftp://example.com", GoodUrl}
OrderCustoms ==
    {Undefined, Str(<<"a", "b">>), Str(<<"a", "b", "c", "!">>), Str(<<"!">>),
     Str(CodeA), Str(CodeC)}

\* C14 (order of the checks): in every reachable state, POST /api/shorten
\* answers with the first check that fails, in the order: URL missing (400),
\* URL invalid (400), creator at quota (429), then the failures of the code
\* allocation (400: format, length, collision); with no failing check it
\* answers 200.  So a creator at quota gets 429 whatever the custom code,
\* and an invalid URL is reported as such even at quota.
C14_FirstFailingCheck ==
    \A creator \in IPs, originalUrl \in OrderUrls, customShortcode \in OrderCustoms :
        \A o \in {ShortenHandler(urlDatabase, clickAnalytics, clock, uuidCount, originalUrl,
                                 customShortcode, Num(1), creator,
                                 <<QuotaDraw(Len(urlDatabase))>>, 0)} :
        LET code == customShortcode.val
        IN  IF originalUrl = ""
            THEN o.status = 400 /\ o.body.error = MissingUrlMessage
            ELSE IF originalUrl # GoodUrl
            THEN o.status = 400 /\ o.body.error = InvalidUrlMessage
            ELSE IF ActiveCount(urlDatabase, creator, clock) >= 5
            THEN o.status = 429 /\ o.body.error = QuotaMessage
            ELSE IF customShortcode = Undefined
            THEN o.status = 200
            ELSE IF \E i \in 1..Len(code) : code[i] \notin CustomAlphabet
            THEN o.status = 400 /\ o.body.error = FormatMessage
            ELSE IF Len(code) < 3
            THEN o.status = 400 /\ o.body.error = LengthMessage
            ELSE IF code \in Keys(urlDatabase)
            THEN o.status = 400 /\ o.body.error = CollisionMessage
            ELSE o.status = 200

\* a creator holds 5 live records, one of them under a code that a custom
\* request may ask for again, and a request with an invalid URL has just
\* been answered 400, invalid URL
C14_Witness ==
    /\ last.route = "shorten" /\ last.status = 400
    /\ last.body.error = InvalidUrlMessage
    /\ CodeA \in Keys(urlDatabase)
    /\ \E creator \in IPs : ActiveCount(urlDatabase, creator, clock) = 5

\* the analytics with one more click on every entry
Clicked(an) ==
    [k \in 1..Len(an) |->
        [key |-> an[k].key, totalClicks |-> an[k].totalClicks + 1,
         clicks |-> Append(an[k].clicks,
                           [timestamp |-> clock, ip |-> "10.0.0.2", userAgent |-> "unknown",
                            location |-> "Tokyo, JP"])]]

\* one request or more for each check that can refuse a create
FrameCases == (OrderUrls \X {Undefined}) \cup ({GoodUrl} \X OrderCustoms)

\* C15 (a failing create changes nothing): a POST /api/shorten that is not
\* answered 200 leaves the Registry and the analytics exactly as they were
\* (and draws no id); and in every reachable state this is so for every
\* request that fails, whichever check refuses it: URL missing, URL
\* invalid, quota, custom code ill-formed, too short or taken, also when
\* the codes of the Registry have been clicked.
C15_FailedCreateChangesNothing ==
    [][/\ (last'.route = "shorten" /\ last'.status # 200) =>
            UNCHANGED <<urlDatabase, clickAnalytics, uuidCount>>
       /\ \A creator \in IPs, c \in FrameCases :
            \A o \in {ShortenHandler(urlDatabase, Clicked(clickAnalytics), clock, uuidCount,
                                     c[1], c[2], Num(1), creator,
                                     <<QuotaDraw(Len(urlDatabase))>>, 0)} :
                IF o.status = 200
                THEN Len(o.db) = Len(urlDatabase) + 1
                ELSE /\ o.db = urlDatabase
                     /\ o.an = Clicked(clickAnalytics)
                     /\ o.uuids = uuidCount
      ]_vars

\* a create has just been refused for a custom code that is taken; the
\* Registry holds that record and others, of both creators, some expired
C15_Witness ==
    /\ last.route = "shorten" /\ last.status = 400
    /\ last.body.error = CollisionMessage
    /\ Len(urlDatabase) >= 3
    /\ Expired(urlDatabase[1], clock)
    /\ \E i \in 1..Len(urlDatabase) : urlDatabase[i].createdBy # urlDatabase[1].createdBy

\* two requests that choose the same code: the same custom code, or the
\* same first draw (the second draw, where there is one, is another code)
SameCodeChoices ==
    {[customShortcode |-> Str(CodeC), draws |-> <<>>],
     [customShortcode |-> Undefined, draws |-> <<QuotaDraw(Len(urlDatabase))>>],
     [customShortcode |-> Undefined,
      draws |-> <<QuotaDraw(Len(urlDatabase)), QuotaDraw(Len(urlDatabase) + 1)>>]}

\* C16 (create is one step): the handler has no await, so of two requests
\* that arrive together one runs to its end before the other starts.  In
\* every reachable state, for two creates that choose the same code, run
\* one after the other: a record they store is under a code no earlier
\* record holds, with its analytics entry, neither creator ends above 5
\* live records, and when the first create stored the code the second is
\* refused (429 at quota, else 400: taken, or no retry left) or stores
\* another code.
C16_CreateIsAtomic ==
    \A first \in IPs, second \in IPs, choice \in SameCodeChoices :
        \A o1 \in {ShortenHandler(urlDatabase, clickAnalytics, clock, uuidCount, GoodUrl,
                                  choice.customShortcode, Num(1), first, choice.draws, 0)} :
        \A o2 \in {ShortenHandler(o1.db, o1.an, o1.clock, o1.uuids, GoodUrl,
                                  choice.customShortcode, Num(1), second, choice.draws, 0)} :
            /\ \A i \in (Len(urlDatabase) + 1)..Len(o2.db) :
                  /\ \A j \in 1..(i - 1) : o2.db[j].shortCode # o2.db[i].shortCode
                  /\ i <= Len(o2.an) /\ o2.an[i].key = o2.db[i].shortCode
            /\ Len(o2.an) = Len(o2.db)
            /\ ActiveCount(o2.db, first, o2.clock) <= 5
            /\ ActiveCount(o2.db, second, o2.clock) <= 5
            /\ Len(o2.db) >= Len(o1.db)
            /\ o1.status = 200 =>
                  \/ o2.status = 429 /\ o2.db = o1.db
                  \/ /\ o2.status = 400 /\ o2.db = o1.db
                     /\ o2.body.error =
                           IF choice.customShortcode = Undefined
                           THEN StackMessage ELSE CollisionMessage
                  \/ /\ o2.status = 200
                     /\ choice.customShortcode = Undefined
                     /\ Len(o2.db) = Len(o1.db) + 1
                     /\ o2.body.data.shortCode # o1.body.data.shortCode

\* two creates for the custom code CodeA came at the same instant: the
\* first stored it, the second has just been refused as taken, and the
\* creator of the record holds 4 live records
C16_Witness ==
    /\ last.route = "shorten" /\ last.status = 400
    /\ last.body.error = CollisionMessage
    /\ \E i \in 1..Len(urlDatabase) :
          /\ urlDatabase[i].shortCode = CodeA
          /\ urlDatabase[i].createdAt = clock
          /\ ActiveCount(urlDatabase, urlDatabase[i].createdBy, clock) = 4

\* C17 (quota slots free up): in every reachable state a creator with
\* fewer than 5 records that have not expired (now <= expiryDate) can
\* create, however many expired records the creator has, and the create
\* keeps every record the Registry held, the expired ones too; with 5 such
\* records the creator is refused with 429.
C17_QuotaCountsLiveRecords ==
    \A creator \in IPs :
        \A o \in {ShortenHandler(urlDatabase, clickAnalytics, clock, uuidCount, GoodUrl,
                                 Undefined, Num(1), creator,
                                 <<QuotaDraw(Len(urlDatabase))>>, 0)} :
            IF ActiveCount(urlDatabase, creator, clock) < 5
            THEN /\ o.status = 200
                 /\ Keeps(urlDatabase, o.db)
                 /\ Len(o.db) = Len(urlDatabase) + 1
            ELSE o.status = 429 /\ o.body.error = QuotaMessage /\ o.db = urlDatabase

\* a creator who held 5 live records has created a sixth after one of them,
\* and only that one, expired: the Registry still holds the expired record
C17_Witness ==
    /\ last.route = "shorten" /\ last.status = 200
    /\ \E creator \in IPs :
          /\ \A i \in 1..Len(urlDatabase) : urlDatabase[i].createdBy = creator
          /\ Len(urlDatabase) = 6
          /\ ActiveCount(urlDatabase, creator, clock) = 5
          /\ Expired(urlDatabase[1], clock)
          /\ urlDatabase[6].createdAt > urlDatabase[1].expiryDate
          /\ \A i \in 2..5 : urlDatabase[i].createdAt < urlDatabase[1].expiryDate

\* C18 (records are immutable and never removed): whatever the step
\* (create, list, analytics, resolve, health, time passing), the Registry
\* holds after it at least as many records as before, and every record it
\* held is still there under its code with the same id, originalUrl,
\* createdAt, expiryDate, createdBy and validityPeriod.
C18_RecordsImmutable ==
    [][/\ Len(urlDatabase') >= Len(urlDatabase)
       /\ \A i \in 1..Len(urlDatabase) :
            \E j \in 1..Len(urlDatabase') :
               /\ urlDatabase'[j].shortCode = urlDatabase[i].shortCode
               /\ urlDatabase'[j].id = urlDatabase[i].id
               /\ urlDatabase'[j].originalUrl = urlDatabase[i].originalUrl
               /\ urlDatabase'[j].createdAt = urlDatabase[i].createdAt
               /\ urlDatabase'[j].expiryDate = urlDatabase[i].expiryDate
               /\ urlDatabase'[j].createdBy = urlDatabase[i].createdBy
               /\ urlDatabase'[j].validityPeriod = urlDatabase[i].validityPeriod
      ]_vars

\* a record that was clicked and has expired since is still the first of
\* the Registry, with the id it was given, after a later create
C18_Witness ==
    /\ last.route = "shorten" /\ last.status = 200
    /\ Len(urlDatabase) = 2
    /\ urlDatabase[1].id = 1
    /\ Expired(urlDatabase[1], clock)
    /\ AnalyticsOrEmpty(clickAnalytics, urlDatabase[1].shortCode).totalClicks = 1
    /\ urlDatabase[2].createdAt > urlDatabase[1].expiryDate

\* the variables, with the response body as text: bodies of different
\* shapes (a record, a sequence of records) can then be told apart
observed ==
    <<urlDatabase, clickAnalytics, clock, uuidCount, last.route, last.status, last.code,
      ToString(last.body), inFlight>>

\* The sink specification: creates and resolves whose log entries are
\* delivered, refused or timed out at any later moment, other requests and
\* the clock going on meanwhile.
NextSink ==
    \/ Service(GeneratedCases({NoNumber}, {<<d>> : d \in RandomDraws}), {"10.0.0.1"},
               {CodeA, CodeB}, OneClick, {MsPerMinute}, FALSE, MaxUrls, MaxClicks, MaxInFlight)
    \/ \E outcome \in SinkOutcomes : Deliver(outcome)

SpecSink == Init /\ [][NextSink]_vars

\* C21 (telemetry never affects state): a step in which a log delivery
\* settles, delivered, failed or timed out, leaves the Registry, the
\* analytics, the clock and the id counter as they were; and whatever
\* number of deliveries is still in flight, a successful create (200) adds
\* exactly one record with an analytics entry of 0 clicks and leaves the
\* other records and entries as they were, and a successful resolve (302)
\* leaves the Registry as it was and adds exactly one click to the entry of
\* the resolved code and none to any other.
C21_SinkNeverAffectsState ==
    [][ /\ last'.route = "log" => UNCHANGED <<urlDatabase, clickAnalytics, clock, uuidCount>>
        /\ (last'.route = "shorten" /\ last'.status = 200) =>
              /\ Len(urlDatabase') = Len(urlDatabase) + 1
              /\ SubSeq(urlDatabase', 1, Len(urlDatabase)) = urlDatabase
              /\ Len(clickAnalytics') = Len(clickAnalytics) + 1
              /\ SubSeq(clickAnalytics', 1, Len(clickAnalytics)) = clickAnalytics
              /\ clickAnalytics'[Len(clickAnalytics')] =
                    [key |-> urlDatabase'[Len(urlDatabase')].shortCode,
                     totalClicks |-> 0, clicks |-> <<>>]
        /\ (last'.route = "redirect" /\ last'.status = 302) =>
              /\ urlDatabase' = urlDatabase
              /\ Len(clickAnalytics') = Len(clickAnalytics)
              /\ \A i \in 1..Len(clickAnalytics) :
                    IF clickAnalytics[i].key = last'.code
                    THEN /\ clickAnalytics'[i].key = clickAnalytics[i].key
                         /\ clickAnalytics'[i].totalClicks = clickAnalytics[i].totalClicks + 1
                         /\ Len(clickAnalytics'[i].clicks) = Len(clickAnalytics[i].clicks) + 1
                         /\ SubSeq(clickAnalytics'[i].clicks, 1, Len(clickAnalytics[i].clicks))
                              = clickAnalytics[i].clicks
                    ELSE clickAnalytics'[i] = clickAnalytics[i]
      ]_observed

\* a delivery has just failed or timed out while another is still in
\* flight, after a create and one resolve of the created code
C21_Witness ==
    /\ last.route = "log" /\ last.body.error \in {"failed", "timeout"}
    /\ inFlight > 0
    /\ \E i \in 1..Len(urlDatabase) :
          /\ HasAnalytics(clickAnalytics, urlDatabase[i].shortCode)
          /\ AnalyticsOrEmpty(clickAnalytics, urlDatabase[i].shortCode).totalClicks = 1

\* C19 (list with statistics): GET /api/urls is always answered 200 and
\* changes neither Map; its data has one entry per record of the Registry,
\* in the Registry's insertion order, each with the record's fields, with
\* totalClicks equal to the counter of the code's analytics entry and
\* isExpired equal to (now > expiryDate) for a now the clock showed during
\* the request; and with no analytics entry for a code its totalClicks is 0.
C19_ListWithStats ==
    [][/\ last'.route = "urls" =>
            /\ last'.status = 200
            /\ UNCHANGED <<urlDatabase, clickAnalytics>>
            /\ Len(last'.body.data) = Len(urlDatabase)
            /\ \A i \in 1..Len(urlDatabase) :
                  LET entry == last'.body.data[i]
                  IN  /\ entry.shortCode = urlDatabase[i].shortCode
                      /\ entry.id = urlDatabase[i].id
                      /\ entry.originalUrl = urlDatabase[i].originalUrl
                      /\ entry.expiryDate = urlDatabase[i].expiryDate
                      /\ \E k \in 1..Len(clickAnalytics) :
                            /\ clickAnalytics[k].key = entry.shortCode
                            /\ entry.totalClicks = clickAnalytics[k].totalClicks
                      /\ \E now \in clock..clock' :
                            entry.isExpired = (now > urlDatabase[i].expiryDate)
       /\ \A i \in 1..Len(urlDatabase), tickAt \in 0..2 :
            LET bare == UrlsData(urlDatabase, <<>>, clock, tickAt)
            IN  Len(bare) = Len(urlDatabase) /\ bare[i].totalClicks = 0
      ]_observed

\* the list has just been served for two records: the first clicked once
\* and expired, the second live and never clicked
C19_Witness ==
    /\ last.route = "urls" /\ last.status = 200
    /\ Len(last.body.data) = 2
    /\ last.body.data[1].shortCode = urlDatabase[1].shortCode
    /\ last.body.data[1].totalClicks = 1
    /\ last.body.data[1].isExpired
    /\ last.body.data[2].totalClicks = 0
    /\ ~last.body.data[2].isExpired

\* the records of db that have not expired at time now
LiveAt(db, now) == Cardinality({i \in 1..Len(db) : now <= db[i].expiryDate})

\* C20 (health is a pure read): GET /api/health is answered 200 and
\* changes neither Map; totalUrls is the number of records of the Registry,
\* expired ones included; activeUrls is the number of records with
\* now <= expiryDate (between the count at the end of the request and the
\* count at its start when the clock moves in between), so
\* activeUrls <= totalUrls; and when the clock does not move, activeUrls is
\* the number of entries GET /api/urls gives as not expired at that instant.
C20_HealthSnapshot ==
    [][last'.route = "health" =>
          /\ last'.status = 200
          /\ UNCHANGED <<urlDatabase, clickAnalytics, uuidCount>>
          /\ last'.body.totalUrls = Len(urlDatabase)
          /\ last'.body.activeUrls <= last'.body.totalUrls
          /\ last'.body.activeUrls <= LiveAt(urlDatabase, clock)
          /\ last'.body.activeUrls >= LiveAt(urlDatabase, clock')
          /\ clock' = clock =>
                last'.body.activeUrls =
                    Cardinality({i \in 1..Len(urlDatabase) :
                        ~UrlsData(urlDatabase, clickAnalytics, clock, 0)[i].isExpired})
      ]_observed

\* the health of a Registry of two records has just been served at the
\* very millisecond the second record expires at: it still counts as
\* active, the first one, expired, does not
C20_Witness ==
    /\ last.route = "health" /\ last.status = 200
    /\ last.body.totalUrls = 2
    /\ last.body.activeUrls = 1
    /\ \E i, j \in 1..Len(urlDatabase) :
          /\ Expired(urlDatabase[i], clock)
          /\ urlDatabase[j].expiryDate = clock

\* C22 (empty custom code): in every reachable state, a create whose custom
\* code is the empty string is answered exactly as the same create with no
\* custom code, and leaves the same Registry and analytics: whenever the
\* draws reach a code the Registry does not hold it succeeds (200) with that
\* code, 6 characters of the 62-character alphabet, and it never fails with
\* the format or the length message of a custom code.
C22_EmptyCustomCodeIsAbsent ==
    \A draws \in DrawSeqs, clientIP \in IPs :
        \A o \in {ShortenHandler(urlDatabase, clickAnalytics, clock, uuidCount, GoodUrl,
                                 Str(<<>>), NoNumber, clientIP, draws, 0)} :
            /\ o = ShortenHandler(urlDatabase, clickAnalytics, clock, uuidCount, GoodUrl,
                                  Undefined, NoNumber, clientIP, draws, 0)
            /\ o.status # 200 => o.body.error \notin {FormatMessage, LengthMessage}
            /\ (\E k \in 1..Len(draws) : ~Has(urlDatabase, RandomCode(draws[k]))) =>
                  /\ o.status = 200
                  /\ Len(o.body.data.shortCode) = GeneratedLength
                  /\ Range(o.body.data.shortCode) \subseteq Range(chars)
                  /\ \E k \in 1..Len(draws) : o.body.data.shortCode = RandomCode(draws[k])
                  /\ ~Has(urlDatabase, o.body.data.shortCode)
                  /\ o.db[Len(o.db)].shortCode = o.body.data.shortCode

\* the state is the one a create with the empty string as custom code
\* leaves: answered 200, its record, with the generated code CodeB, added
\* after a record the Registry held
C22_Witness ==
    /\ last.route = "shorten" /\ last.status = 200
    /\ Len(urlDatabase) = 2
    /\ last.body.data.shortCode = CodeB
    /\ \E draws \in DrawSeqs, clientIP \in IPs :
          \E o \in {ShortenHandler(SubSeq(urlDatabase, 1, 1), SubSeq(clickAnalytics, 1, 1),
                                   clock, uuidCount - 1, GoodUrl, Str(<<>>), NoNumber,
                                   clientIP, draws, 0)} :
              /\ o.status = 200
              /\ o.db = urlDatabase
              /\ o.an = clickAnalytics
              /\ o.body = last.body

====
